---- MODULE Spec2Model ----
(***************************************************************************)
(* A model of libtins' ICMP codec (src/src/icmp.cpp): the decoder          *)
(* ICMP::ICMP(const uint8_t*, uint32_t), the encoder                       *)
(* ICMP::write_serialization with its size helpers, and                    *)
(* ICMP::matches_response.                                                 *)
(*                                                                         *)
(* Buffers are sequences of bytes (index i of the model is offset i-1 of   *)
(* the code).  The icmphdr struct is kept as its 8-byte memory image, so   *)
(* the union `un' aliases exactly as in the code.  Multi-byte members are  *)
(* numbers as the host sees them; memcpy turns them into bytes in host     *)
(* order, and Endian::host_to_be / be_to_host swap on a little-endian      *)
(* host.  The host's byte order is the variable host_le.                   *)
(***************************************************************************)
EXTENDS Integers, Sequences, FiniteSets, TLC

VARIABLES
    pc,        \* "built" | "serialized" | "received" | "parsed" | "matched"
    host_le,   \* TRUE on a little-endian host
    obj,       \* the ICMP object being built and serialized
    calls,     \* setter calls made on obj so far
    buffer,    \* the bytes being written / parsed / matched against
    fill,      \* what the output buffer held before serialization
    writes,    \* the [lo, hi) offset ranges write_serialization wrote
    rcv,       \* the result of ICMP(buffer, total_sz)
    matched    \* the result of matches_response(buffer, total_sz)

vars == <<pc, host_le, obj, calls, buffer, fill, writes, rcv, matched>>

(***************************************************************************)
(* Bounds of the model.                                                    *)
(***************************************************************************)
\* setter calls made on an object before it is serialized
MaxCalls == 3
\* objects in an extension structure handed to ICMP::extensions()
MaxExtObjs == 2

(***************************************************************************)
(* ICMP::Flags (icmp.h), the values of RFC 792.                            *)
(***************************************************************************)
ECHO_REPLY == 0
DEST_UNREACHABLE == 3
SOURCE_QUENCH == 4
ECHO_REQUEST == 8
TIME_EXCEEDED == 11
PARAM_PROBLEM == 12
TIMESTAMP_REQUEST == 13
TIMESTAMP_REPLY == 14
INFO_REQUEST == 15
INFO_REPLY == 16
ADDRESS_MASK_REQUEST == 17
ADDRESS_MASK_REPLY == 18

Flags == {ECHO_REPLY, DEST_UNREACHABLE, SOURCE_QUENCH, ECHO_REQUEST,
          TIME_EXCEEDED, PARAM_PROBLEM, TIMESTAMP_REQUEST, TIMESTAMP_REPLY,
          INFO_REQUEST, INFO_REPLY, ADDRESS_MASK_REQUEST, ADDRESS_MASK_REPLY}

\* sizeof(icmphdr)
SizeofIcmphdr == 8
\* sizeof(uint32_t)
SizeofU32 == 4
EXTENSION_PAYLOAD_LIMIT == 128

(***************************************************************************)
(* Bytes, integers of fixed width, byte order.                             *)
(***************************************************************************)
Min(a, b) == IF a < b THEN a ELSE b
Max(a, b) == IF a > b THEN a ELSE b

U8(x)  == x % 256
U16(x) == x % 65536
\* A uint32_t value is the tuple of its four bytes, most significant first
\* (the model checker's integers are narrower than 32 bits unsigned).
Zero32 == <<0, 0, 0, 0>>

Zeros(n) == SubSeq([i \in 1..n |-> 0], 1, n)

\* the 16-bit / 32-bit value with its bytes reversed
bswap16(x) == (x % 256) * 256 + (x \div 256)
bswap32(x) == <<x[4], x[3], x[2], x[1]>>

\* Endian::host_to_be and Endian::be_to_host
host_to_be16(x) == IF host_le THEN bswap16(x) ELSE x
host_to_be32(x) == IF host_le THEN bswap32(x) ELSE x
be_to_host32(x) == IF host_le THEN bswap32(x) ELSE x

\* memcpy(dst, &x, sizeof x): the bytes of x in memory, in host order
HostBytes16(x) == IF host_le THEN <<x % 256, x \div 256>>
                  ELSE <<x \div 256, x % 256>>
HostBytes32(x) == IF host_le THEN <<x[4], x[3], x[2], x[1]>> ELSE x
\* memcpy(&x, src, sizeof x): the number the host reads from 4 bytes
HostValue32(b) == IF host_le THEN <<b[4], b[3], b[2], b[1]>> ELSE <<b[1], b[2], b[3], b[4]>>

\* memcpy(buf + off, bytes, Len(bytes)) into a buffer of Len(buf) bytes
MemCpy(buf, off, bytes) ==
    LET inside == Min(Len(bytes), Max(Len(buf) - off, 0))
    IN IF inside = 0 THEN buf
       ELSE SubSeq(buf, 1, off) \o SubSeq(bytes, 1, inside)
            \o SubSeq(buf, off + inside + 1, Len(buf))
\* memset(buf + off, 0, n)
MemSet0(buf, off, n) == MemCpy(buf, off, Zeros(n))
\* the offsets [off, off + n) as a range, nothing when n = 0
Range(off, n) == IF n > 0 THEN {[lo |-> off, hi |-> off + n]} ELSE {}
\* buf[from, to) by offsets
Slice(buf, from, to) == SubSeq(buf, from + 1, to)

(***************************************************************************)
(* Collaborators the file calls and does not define.                       *)
(***************************************************************************)
\* Utils::do_checksum(start, end): the sum of the 16-bit big-endian words of
\* buf, an odd last byte counting as the high byte of a last word.
WordAt(buf, k) == buf[2 * k - 1] * 256 + (IF 2 * k <= Len(buf) THEN buf[2 * k] ELSE 0)

RECURSIVE SumWords(_, _, _)
SumWords(buf, lo, hi) ==
    IF lo > hi THEN 0
    ELSE IF lo = hi THEN WordAt(buf, lo)
    ELSE LET mid == (lo + hi) \div 2
         IN SumWords(buf, lo, mid) + SumWords(buf, mid + 1, hi)

do_checksum(buf) == SumWords(buf, 1, (Len(buf) + 1) \div 2)

\* while (checksum >> 16) checksum = (checksum & 0xffff) + (checksum >> 16);
RECURSIVE FoldCarry(_)
FoldCarry(c) == IF c \div 65536 > 0 THEN FoldCarry((c % 65536) + (c \div 65536)) ELSE c

\* ICMPExtensionsStructure: a 4-byte header (version 2, reserved, checksum)
\* followed by objects, each a 16-bit length, a class, a type and a payload.
ExtObj(k) == [clss |-> 1, typ |-> k, payload |-> <<k, k + 1, k + 2, k + 3>>]
ExtObjBytes(o) ==
    LET n == 4 + Len(o.payload)
    IN <<n \div 256, n % 256, o.clss, o.typ>> \o o.payload

RECURSIVE ExtBody(_)
ExtBody(objs) == IF objs = <<>> THEN <<>> ELSE ExtObjBytes(Head(objs)) \o ExtBody(Tail(objs))

\* ICMPExtensionsStructure::size()
structure_size(objs) == 4 + Len(ExtBody(objs))

\* ICMPExtensionsStructure::serialize, without the bound of the buffer
extensions_bytes(objs) ==
    LET zeroed == <<32, 0, 0, 0>> \o ExtBody(objs)
        ck == 65535 - FoldCarry(do_checksum(zeroed))
    IN <<32, 0, ck \div 256, ck % 256>> \o ExtBody(objs)

\* ICMPExtensionsStructure::validate_extensions(ptr, size)
validate_extensions(bytes) ==
    /\ Len(bytes) >= 4
    /\ bytes[1] \div 16 = 2
    /\ LET zeroed == MemCpy(bytes, 2, <<0, 0>>)
       IN bytes[3] * 256 + bytes[4] = 65535 - FoldCarry(do_checksum(zeroed))

\* ICMPExtensionsStructure(ptr, size): the objects of a block
RECURSIVE ParseObjs(_)
ParseObjs(bytes) ==
    IF Len(bytes) < 4 THEN <<>>
    ELSE LET n == bytes[1] * 256 + bytes[2]
         IN IF n < 4 \/ n > Len(bytes) THEN <<>>
            ELSE <<[clss |-> bytes[3], typ |-> bytes[4], payload |-> SubSeq(bytes, 5, n)]>>
                 \o ParseObjs(SubSeq(bytes, n + 1, Len(bytes)))

parse_extensions(bytes) == ParseObjs(SubSeq(bytes, 5, Len(bytes)))

\* IPv4Address(uint32_t) and IPv4Address::operator uint32_t()
address_type(x) == [ip_addr |-> be_to_host32(x)]
address_to_u32(a) == host_to_be32(a.ip_addr)

(***************************************************************************)
(* The object: its constructor, getters and setters.                       *)
(***************************************************************************)
\* ICMP::ICMP(Flags flag)
ICMP_new(flag) ==
    [icmp |-> <<flag, 0, 0, 0, 0, 0, 0, 0>>,
     orig |-> Zero32, recv |-> Zero32, trans |-> Zero32,
     extensions_ |-> <<>>, inner |-> <<>>, has_inner |-> FALSE]

\* getters of icmp.h
get_type(o) == o.icmp[1]
get_length(o) == o.icmp[6]
get_original_timestamp(o) == be_to_host32(o.orig)
get_receive_timestamp(o) == be_to_host32(o.recv)
get_transmit_timestamp(o) == be_to_host32(o.trans)
get_address_mask(o) == address_type(be_to_host32(o.orig))
has_extensions(o) == o.extensions_ # <<>>
inner_size(o) == Len(o.inner)

\* setters: the object with one member assigned
put_code(o, new_code) == [o EXCEPT !.icmp = MemCpy(@, 1, <<new_code>>)]
put_checksum(o, new_check) ==
    [o EXCEPT !.icmp = MemCpy(@, 2, HostBytes16(host_to_be16(new_check)))]
put_id(o, new_id) ==
    [o EXCEPT !.icmp = MemCpy(@, 4, HostBytes16(host_to_be16(new_id)))]
put_sequence(o, new_seq) ==
    [o EXCEPT !.icmp = MemCpy(@, 6, HostBytes16(host_to_be16(new_seq)))]
put_original_timestamp(o, new_timestamp) == [o EXCEPT !.orig = host_to_be32(new_timestamp)]
put_receive_timestamp(o, new_timestamp) == [o EXCEPT !.recv = host_to_be32(new_timestamp)]
put_transmit_timestamp(o, new_timestamp) == [o EXCEPT !.trans = host_to_be32(new_timestamp)]
put_address_mask(o, new_mask) == [o EXCEPT !.orig = host_to_be32(address_to_u32(new_mask))]
put_length_field(o, value) == [o EXCEPT !.icmp = MemCpy(@, 5, <<IF value THEN 1 ELSE 0>>)]

\* ICMP::are_extensions_allowed
are_extensions_allowed(o) ==
    get_type(o) = DEST_UNREACHABLE \/ get_type(o) = TIME_EXCEEDED \/ get_type(o) = PARAM_PROBLEM

\* type() == TIMESTAMP_REQUEST || type() == TIMESTAMP_REPLY
\* (variant: the reply kind forgotten)
IsTimestamp_request_only(t) == t = TIMESTAMP_REQUEST
IsTimestamp(t) == t = TIMESTAMP_REQUEST \/ t = TIMESTAMP_REPLY
\* type() == ADDRESS_MASK_REQUEST || type() == ADDRESS_MASK_REPLY
IsAddressMask(t) == t = ADDRESS_MASK_REQUEST \/ t = ADDRESS_MASK_REPLY

(***************************************************************************)
(* Size helpers.                                                           *)
(***************************************************************************)
\* ICMP::header_size
header_size(o) ==
    LET extra == IF IsTimestamp(get_type(o)) THEN SizeofU32 * 3
                 ELSE IF IsAddressMask(get_type(o)) THEN SizeofU32
                 ELSE 0
    IN SizeofIcmphdr + extra

\* ICMP::get_adjusted_inner_pdu_size
get_adjusted_inner_pdu_size(o) ==
    IF o.has_inner
    THEN LET inner_pdu_size == inner_size(o)
             padding == inner_pdu_size % 4
         IN IF padding # 0 THEN inner_pdu_size - padding + 4 ELSE inner_pdu_size
    ELSE 0

\* ICMP::trailer_size
\* (variant: the size of the extension block not counted)
trailer_size_without_block(o) ==
    IF has_extensions(o)
    THEN IF o.has_inner
         THEN Max(get_adjusted_inner_pdu_size(o), 128) - inner_size(o)
         ELSE 0
    ELSE 0

\* (variant: the padding up to 128 bytes not counted)
trailer_size_no_floor(o) ==
    IF has_extensions(o)
    THEN structure_size(o.extensions_)
         + (IF o.has_inner THEN get_adjusted_inner_pdu_size(o) - inner_size(o) ELSE 0)
    ELSE 0

trailer_size(o) ==
    IF has_extensions(o)
    THEN structure_size(o.extensions_)
         + (IF o.has_inner
            THEN Max(get_adjusted_inner_pdu_size(o), 128) - inner_size(o)
            ELSE 0)
    ELSE 0

(***************************************************************************)
(* The encoder, ICMP::write_serialization(buffer, total_sz, parent), in    *)
(* the order of its statements.  A write past the end of buf changes       *)
(* nothing of buf and is kept in the ranges written.                       *)
(***************************************************************************)
\* the timestamps or the address mask, after the fixed header
\* (variant: the receive timestamp written over the original one)
write_extras_same_offset(o, buf) ==
    IF IsTimestamp(get_type(o))
    THEN [buf |-> MemCpy(MemCpy(MemCpy(buf,
                     SizeofIcmphdr, HostBytes32(get_original_timestamp(o))),
                     SizeofIcmphdr, HostBytes32(get_receive_timestamp(o))),
                     SizeofIcmphdr + 2 * SizeofU32, HostBytes32(get_transmit_timestamp(o))),
          writes |-> Range(SizeofIcmphdr, SizeofU32)
                     \cup Range(SizeofIcmphdr + 2 * SizeofU32, SizeofU32)]
    ELSE IF IsAddressMask(get_type(o))
    THEN [buf |-> MemCpy(buf, SizeofIcmphdr, HostBytes32(address_to_u32(get_address_mask(o)))),
          writes |-> Range(SizeofIcmphdr, SizeofU32)]
    ELSE [buf |-> buf, writes |-> {}]

write_extras(o, buf) ==
    IF IsTimestamp(get_type(o))
    THEN [buf |-> MemCpy(MemCpy(MemCpy(buf,
                     SizeofIcmphdr, HostBytes32(get_original_timestamp(o))),
                     SizeofIcmphdr + SizeofU32, HostBytes32(get_receive_timestamp(o))),
                     SizeofIcmphdr + 2 * SizeofU32, HostBytes32(get_transmit_timestamp(o))),
          writes |-> Range(SizeofIcmphdr, SizeofU32)
                     \cup Range(SizeofIcmphdr + SizeofU32, SizeofU32)
                     \cup Range(SizeofIcmphdr + 2 * SizeofU32, SizeofU32)]
    ELSE IF IsAddressMask(get_type(o))
    THEN [buf |-> MemCpy(buf, SizeofIcmphdr, HostBytes32(address_to_u32(get_address_mask(o)))),
          writes |-> Range(SizeofIcmphdr, SizeofU32)]
    ELSE [buf |-> buf, writes |-> {}]

\* the rfc4884 length member, an 8-bit count of 32-bit words
write_length(o) ==
    IF are_extensions_allowed(o)
    THEN LET length_value == get_adjusted_inner_pdu_size(o)
         IN IF get_length(o) # 0 \/ length_value > 128
            THEN LET v == IF length_value # 0 THEN Max(length_value, 128) ELSE 0
                 IN [o EXCEPT !.icmp = MemCpy(@, 5, <<U8(v \div SizeofU32)>>)]
            ELSE o
    ELSE o

\* the offset at which the extensions are serialized
extensions_offset(o) ==
    SizeofIcmphdr
    + (IF o.has_inner THEN Max(get_adjusted_inner_pdu_size(o), 128) ELSE 0)

\* the padding after the inner pdu and the extensions
write_extensions(o, buf, total_sz) ==
    IF has_extensions(o)
    THEN LET inner_pdu_size == get_adjusted_inner_pdu_size(o)
             pad == IF ~o.has_inner THEN [off |-> 0, n |-> 0]
                    ELSE IF inner_pdu_size < 128
                    THEN [off |-> SizeofIcmphdr + inner_pdu_size, n |-> 128 - inner_pdu_size]
                    ELSE [off |-> SizeofIcmphdr + inner_pdu_size,
                          n |-> inner_pdu_size - inner_size(o)]
             extensions_ptr == extensions_offset(o)
             room == total_sz - extensions_ptr
             bytes == extensions_bytes(o.extensions_)
             out == SubSeq(bytes, 1, Min(Len(bytes), Max(room, 0)))
         IN [buf |-> MemCpy(MemSet0(buf, pad.off, pad.n), extensions_ptr, out),
             writes |-> Range(pad.off, pad.n) \cup Range(extensions_ptr, Len(out))]
    ELSE [buf |-> buf, writes |-> {}]

\* the fixed header and its checksum
\* (variant: the stored checksum not zeroed before summing)
write_checksum_keeps_old(o, buf) ==
    LET buf1 == MemCpy(buf, 0, o.icmp)
        checksum == FoldCarry(do_checksum(buf1))
        check == host_to_be16(U16(65535 - (checksum % 65536)))
        icmp2 == MemCpy(o.icmp, 2, HostBytes16(check))
    IN [icmp |-> icmp2,
        buf |-> MemCpy(buf1, 2, HostBytes16(check)),
        writes |-> Range(0, SizeofIcmphdr) \cup Range(2, 2)]

write_checksum(o, buf) ==
    LET zeroed == MemCpy(o.icmp, 2, HostBytes16(0))
        buf1 == MemCpy(buf, 0, zeroed)
        checksum == FoldCarry(do_checksum(buf1))
        check == host_to_be16(U16(65535 - (checksum % 65536)))
        icmp2 == MemCpy(zeroed, 2, HostBytes16(check))
    IN [icmp |-> icmp2,
        buf |-> MemCpy(buf1, 2, HostBytes16(check)),
        writes |-> Range(0, SizeofIcmphdr) \cup Range(2, 2)]

write_serialization(o, buf, total_sz) ==
    LET s1 == write_extras(o, buf)
        o2 == write_length(o)
        s3 == write_extensions(o2, s1.buf, total_sz)
        s4 == write_checksum(o2, s3.buf)
    IN [obj |-> [o2 EXCEPT !.icmp = s4.icmp],
        buf |-> s4.buf,
        writes |-> s1.writes \cup s3.writes \cup s4.writes]

(***************************************************************************)
(* The decoder, ICMP::ICMP(buffer, total_sz).                              *)
(***************************************************************************)
\* what a decode that throws malformed_packet leaves: no object
Malformed == [ok |-> FALSE]

\* no candidate extension block
NoCandidate == [found |-> FALSE, off |-> 0]

\* ICMP::try_parse_extensions, the choice of extensions_ptr: the offset of
\* the candidate block in the total_sz bytes after the cursor
\* (variant: no fallback to offset 128)
extensions_candidate_no_fallback(o, total_sz) ==
    LET actual_length == get_length(o) * SizeofU32
    IN IF actual_length < total_sz /\ actual_length >= EXTENSION_PAYLOAD_LIMIT
       THEN [found |-> TRUE, off |-> actual_length]
       ELSE NoCandidate

extensions_candidate(o, total_sz) ==
    LET actual_length == get_length(o) * SizeofU32
    IN IF actual_length < total_sz /\ actual_length >= EXTENSION_PAYLOAD_LIMIT
       THEN [found |-> TRUE, off |-> actual_length]
       ELSE IF total_sz > EXTENSION_PAYLOAD_LIMIT
       THEN [found |-> TRUE, off |-> EXTENSION_PAYLOAD_LIMIT]
       ELSE NoCandidate

\* ICMP::try_parse_extensions(buffer, total_sz): body is the buffer from the
\* cursor on; total_sz is the reference parameter as the call leaves it
\* (variant: total_sz not reduced by the size of the block)
try_parse_extensions_keeps_size(o, body) ==
    LET total_sz == Len(body)
        none == [extensions_ |-> <<>>, assigned |-> FALSE, total_sz |-> total_sz, reads |-> {}]
    IN IF total_sz = 0 THEN none
       ELSE IF are_extensions_allowed(o)
       THEN LET c == extensions_candidate(o, total_sz)
                extensions_size == total_sz - c.off
                block == Slice(body, c.off, total_sz)
            IN IF ~c.found THEN none
               ELSE IF validate_extensions(block)
               THEN [extensions_ |-> parse_extensions(block), assigned |-> TRUE,
                     total_sz |-> total_sz,
                     reads |-> Range(c.off, extensions_size)]
               ELSE [none EXCEPT !.reads = Range(c.off, extensions_size)]
       ELSE none

try_parse_extensions(o, body) ==
    LET total_sz == Len(body)
        none == [extensions_ |-> <<>>, assigned |-> FALSE, total_sz |-> total_sz, reads |-> {}]
    IN IF total_sz = 0 THEN none
       ELSE IF are_extensions_allowed(o)
       THEN LET c == extensions_candidate(o, total_sz)
                extensions_size == total_sz - c.off
                block == Slice(body, c.off, total_sz)
            IN IF ~c.found THEN none
               ELSE IF validate_extensions(block)
               THEN [extensions_ |-> parse_extensions(block), assigned |-> TRUE,
                     total_sz |-> total_sz - extensions_size,
                     reads |-> Range(c.off, extensions_size)]
               ELSE [none EXCEPT !.reads = Range(c.off, extensions_size)]
       ELSE none

\* the bytes a kind carries after the fixed header
extra_needed(t) ==
    IF IsTimestamp(t) THEN SizeofU32 * 3
    ELSE IF IsAddressMask(t) THEN SizeofU32
    ELSE 0

ICMP_parse(buf) ==
    IF Len(buf) < SizeofIcmphdr THEN Malformed
    ELSE LET icmp == Slice(buf, 0, SizeofIcmphdr)
             t == icmp[1]
             total_sz == Len(buf) - SizeofIcmphdr
             o0 == [ICMP_new(t) EXCEPT !.icmp = icmp]
             u32at(off) == HostValue32(Slice(buf, off, off + SizeofU32))
         IN IF total_sz < extra_needed(t) THEN Malformed
            ELSE LET o1 == IF IsTimestamp(t)
                           THEN put_transmit_timestamp(
                                  put_receive_timestamp(
                                    put_original_timestamp(o0, u32at(SizeofIcmphdr)),
                                    u32at(SizeofIcmphdr + SizeofU32)),
                                  u32at(SizeofIcmphdr + 2 * SizeofU32))
                           ELSE IF IsAddressMask(t)
                           THEN put_address_mask(o0, address_type(u32at(SizeofIcmphdr)))
                           ELSE o0
                     cursor == SizeofIcmphdr + extra_needed(t)
                     body == Slice(buf, cursor, Len(buf))
                     x == try_parse_extensions(o1, body)
                 IN [ok |-> TRUE,
                     o |-> [o1 EXCEPT !.extensions_ = x.extensions_,
                                      !.inner = Slice(body, 0, x.total_sz),
                                      !.has_inner = x.total_sz # 0],
                     assigned |-> x.assigned,
                     cursor |-> cursor,
                     reads |-> Range(0, cursor)
                               \cup {[lo |-> r.lo + cursor, hi |-> r.hi + cursor] : r \in x.reads}
                               \cup Range(cursor, x.total_sz)]

(***************************************************************************)
(* ICMP::matches_response(ptr, total_sz)                                   *)
(***************************************************************************)
\* (variant: the sequence not compared)
matches_response_any_sequence(o, ptr) ==
    IF Len(ptr) < SizeofIcmphdr THEN [result |-> FALSE, reads |-> {}]
    ELSE IF \/ (get_type(o) = ECHO_REQUEST /\ ptr[1] = ECHO_REPLY)
            \/ (get_type(o) = TIMESTAMP_REQUEST /\ ptr[1] = TIMESTAMP_REPLY)
            \/ (get_type(o) = ADDRESS_MASK_REQUEST /\ ptr[1] = ADDRESS_MASK_REPLY)
    THEN [result |-> Slice(ptr, 4, 6) = Slice(o.icmp, 4, 6),
          reads |-> Range(0, 1) \cup Range(4, 2)]
    ELSE [result |-> FALSE, reads |-> Range(0, 1)]

matches_response(o, ptr) ==
    IF Len(ptr) < SizeofIcmphdr THEN [result |-> FALSE, reads |-> {}]
    ELSE IF \/ (get_type(o) = ECHO_REQUEST /\ ptr[1] = ECHO_REPLY)
            \/ (get_type(o) = TIMESTAMP_REQUEST /\ ptr[1] = TIMESTAMP_REPLY)
            \/ (get_type(o) = ADDRESS_MASK_REQUEST /\ ptr[1] = ADDRESS_MASK_REPLY)
    THEN [result |-> Slice(ptr, 4, 6) = Slice(o.icmp, 4, 6)
                     /\ Slice(ptr, 6, 8) = Slice(o.icmp, 6, 8),
          reads |-> Range(0, 1) \cup Range(4, 2) \cup Range(6, 2)]
    ELSE [result |-> FALSE, reads |-> Range(0, 1)]

(***************************************************************************)
(* The inputs of the model.                                                *)
(***************************************************************************)
CodeValues == {1}
ChecksumValues == {48879}
IdValues == {4660}
SequenceValues == {1}
OriginalTimestamps == {<<1, 2, 3, 4>>}
ReceiveTimestamps == {<<5, 6, 7, 8>>}
TransmitTimestamps == {<<9, 10, 11, 12>>}
AddressMasks == {<<255, 255, 255, 0>>}
\* lengths of the inner pdu: short and unaligned, short and aligned, aligned
\* to exactly 128, above 128
PayloadLengths == {5, 40, 126, 130}
\* aligned lengths around 1024, where the length in words stops fitting 8 bits
LongPayloadLengths == {1016, 1020, 1024, 1028}
Payload(n) == SubSeq([i \in 1..n |-> ((i * 7) % 255) + 1], 1, n)
ExtensionStructures == {SubSeq([i \in 1..n |-> ExtObj(i)], 1, n) : n \in 1..MaxExtObjs}
\* what the output buffer may hold before it is written
FillValues == {0, 255}
\* the kinds of the objects that are built and serialized
SenderFlags == {ECHO_REQUEST, DEST_UNREACHABLE, TIME_EXCEEDED, PARAM_PROBLEM,
                TIMESTAMP_REQUEST, TIMESTAMP_REPLY, ADDRESS_MASK_REQUEST, ADDRESS_MASK_REPLY}

\* the fixed header of a crafted packet
CraftedHeader(t, lenfield) == <<t, 0, 0, 0, 0, lenfield, 0, 0>>
Filler(n) == SubSeq([i \in 1..n |-> 171], 1, n)
ValidBlock == extensions_bytes(<<ExtObj(1)>>)
\* the same block with a checksum that does not verify
InvalidBlock == MemCpy(ValidBlock, 2, <<0, 0>>)
LengthFields == {0, 1, 32, 33, 35, 36, 255}
CraftedBuffers ==
    {SubSeq(CraftedHeader(t, lf), 1, n) : t \in Flags, lf \in LengthFields, n \in {0, 4, 7}}
    \cup {CraftedHeader(t, lf) \o Filler(p) \o tail :
            t \in Flags, lf \in LengthFields,
            p \in {0, 3, 4, 7, 11, 12, 16, 100, 128, 132, 140},
            tail \in {<<>>, ValidBlock, InvalidBlock}}

\* candidate replies handed to matches_response
Candidates(o) ==
    {SubSeq(<<t, 0, 18, 52>> \o idseq \o Filler(12), 1, n) :
        t \in Flags,
        idseq \in {Slice(o.icmp, 4, 8), <<18, 52, 0, 1>>, <<0, 0, 0, 0>>,
                   <<18, 52, 0, 2>>, <<19, 52, 0, 1>>},
        n \in {4, 7, 8, 9, 20}}

(***************************************************************************)
(* Actions.                                                                *)
(***************************************************************************)
Set(o) ==
    /\ pc = "built"
    /\ calls < MaxCalls
    /\ obj' = o
    /\ calls' = calls + 1
    /\ UNCHANGED <<pc, host_le, buffer, fill, writes, rcv, matched>>

\* ICMP::code
code == \E new_code \in CodeValues : Set(put_code(obj, new_code))
\* ICMP::checksum
checksum == \E new_check \in ChecksumValues : Set(put_checksum(obj, new_check))
\* ICMP::id
id == \E new_id \in IdValues : Set(put_id(obj, new_id))
\* ICMP::sequence
sequence == \E new_seq \in SequenceValues : Set(put_sequence(obj, new_seq))
\* ICMP::original_timestamp
original_timestamp ==
    \E new_timestamp \in OriginalTimestamps : Set(put_original_timestamp(obj, new_timestamp))
\* ICMP::receive_timestamp
receive_timestamp ==
    \E new_timestamp \in ReceiveTimestamps : Set(put_receive_timestamp(obj, new_timestamp))
\* ICMP::transmit_timestamp
transmit_timestamp ==
    \E new_timestamp \in TransmitTimestamps : Set(put_transmit_timestamp(obj, new_timestamp))
\* ICMP::address_mask
address_mask ==
    \E new_mask \in AddressMasks : Set(put_address_mask(obj, address_type(new_mask)))
\* ICMP::use_length_field
use_length_field == \E value \in BOOLEAN : Set(put_length_field(obj, value))
\* PDU::inner_pdu(new RawPDU(...))
inner_pdu ==
    \E n \in PayloadLengths : Set([obj EXCEPT !.inner = Payload(n), !.has_inner = TRUE])
\* ICMP::extensions(const ICMPExtensionsStructure&)
extensions ==
    \E e \in ExtensionStructures : Set([obj EXCEPT !.extensions_ = e])

\* PDU::serialize: a buffer of header_size() + inner size + trailer_size()
\* bytes, the inner pdu serialized after the header, then
\* write_serialization(buffer, total_sz, parent)
serialize ==
    /\ pc = "built"
    /\ \E f \in FillValues :
         LET hs == header_size(obj)
             total_sz == hs + inner_size(obj) + trailer_size(obj)
             buf0 == MemCpy(SubSeq([i \in 1..total_sz |-> f], 1, total_sz), hs, obj.inner)
             r == write_serialization(obj, buf0, total_sz)
         IN /\ obj' = r.obj
            /\ buffer' = r.buf
            /\ writes' = r.writes
            /\ fill' = f
    /\ pc' = "serialized"
    /\ UNCHANGED <<host_le, calls, rcv, matched>>

\* ICMP::ICMP(buffer, total_sz) on the bytes written or received
ICMP_from_buffer ==
    /\ pc \in {"serialized", "received"}
    /\ rcv' = ICMP_parse(buffer)
    /\ pc' = "parsed"
    /\ UNCHANGED <<host_le, obj, calls, buffer, fill, writes, matched>>

\* ICMP::matches_response on a candidate reply
matches ==
    /\ pc = "request"
    /\ \E ptr \in Candidates(obj) :
         /\ buffer' = ptr
         /\ matched' = matches_response(obj, ptr)
    /\ pc' = "matched"
    /\ UNCHANGED <<host_le, obj, calls, fill, writes, rcv>>

(***************************************************************************)
(* Specifications.                                                         *)
(***************************************************************************)
Idle ==
    /\ calls = 0
    /\ buffer = <<>>
    /\ fill = 0
    /\ writes = {}
    /\ rcv = Malformed
    /\ matched = [result |-> FALSE, reads |-> {}]

\* an object is constructed, set up, serialized, and its bytes decoded
Init ==
    /\ host_le \in BOOLEAN
    /\ pc = "built"
    /\ obj \in {ICMP_new(flag) : flag \in SenderFlags}
    /\ Idle

Next ==
    \/ code \/ checksum \/ id \/ sequence
    \/ original_timestamp \/ receive_timestamp \/ transmit_timestamp
    \/ address_mask \/ use_length_field \/ inner_pdu \/ extensions
    \/ serialize
    \/ ICMP_from_buffer

Spec == Init /\ [][Next]_vars

\* an error message that quotes a long packet is serialized and decoded
InitLong ==
    /\ host_le \in BOOLEAN
    /\ pc = "built"
    /\ obj \in {[put_length_field(ICMP_new(flag), value)
                   EXCEPT !.inner = Payload(n), !.has_inner = TRUE, !.extensions_ = e] :
                  flag \in {DEST_UNREACHABLE, TIME_EXCEEDED, PARAM_PROBLEM},
                  value \in BOOLEAN, n \in LongPayloadLengths, e \in ExtensionStructures}
    /\ Idle

NextLong == serialize \/ ICMP_from_buffer

SpecLong == InitLong /\ [][NextLong]_vars

\* a packet is received and decoded
InitDecode ==
    /\ host_le \in BOOLEAN
    /\ pc = "received"
    /\ obj = ICMP_new(ECHO_REQUEST)
    /\ calls = 0
    /\ buffer \in CraftedBuffers
    /\ fill = 0
    /\ writes = {}
    /\ rcv = Malformed
    /\ matched = [result |-> FALSE, reads |-> {}]

NextDecode == ICMP_from_buffer

SpecDecode == InitDecode /\ [][NextDecode]_vars

\* a request is matched against candidate replies
InitMatch ==
    /\ host_le \in BOOLEAN
    /\ pc = "request"
    /\ obj \in {put_sequence(put_id(ICMP_new(flag), i), s) :
                  flag \in Flags, i \in IdValues \cup {0}, s \in SequenceValues \cup {0}}
    /\ Idle

NextMatch == matches

SpecMatch == InitMatch /\ [][NextMatch]_vars

(***************************************************************************)
(* Properties.                                                             *)
(***************************************************************************)
Encoded == pc \in {"serialized", "parsed"} /\ buffer # <<>>
ExtensionCapable(t) == t \in {3, 11, 12}
\* the bytes a kind carries before its payload
HeaderBytes(t) == IF t \in {13, 14} THEN 20 ELSE IF t \in {17, 18} THEN 12 ELSE 8
RoundUp4(n) == ((n + 3) \div 4) * 4

\* C1: decoding a buffer of n bytes fails exactly when n < 8, or the kind is a
\* timestamp request/reply and n < 20, or the kind is an address mask
\* request/reply and n < 12; every other buffer decodes, whether or not a
\* candidate extension block validates; a failed decode leaves no message.
C1_DecodeFailsExactlyWhenShort ==
    pc = "parsed" =>
        LET n == Len(buffer)
            short == \/ n < 8
                     \/ (buffer[1] \in {13, 14} /\ n < 20)
                     \/ (buffer[1] \in {17, 18} /\ n < 12)
        IN /\ (~rcv.ok) <=> short
           /\ (~rcv.ok) => DOMAIN rcv = {"ok"}
           /\ rcv.ok => rcv.o.icmp = SubSeq(buffer, 1, 8)

\* a timestamp request of 15 bytes was refused
C1_Witness ==
    /\ pc = "parsed"
    /\ Len(buffer) = 15
    /\ buffer[1] = 13
    /\ ~rcv.ok

\* C9: a successful decode splits the R bytes after the header and extras at
\* one offset s: the payload is bytes [0, s), the extension block bytes [s, R).
\* Extensions are there only for an extension-capable kind, with R > 0, s the
\* declared length*4 (when 128 <= length*4 < R) or else 128 (when R > 128),
\* and a block the validator accepts; otherwise s = R.  Nothing is read past
\* the input.
C9_DecodeSplitsAtOneOffset ==
    (pc = "parsed" /\ rcv.ok) =>
        LET body == SubSeq(buffer, HeaderBytes(buffer[1]) + 1, Len(buffer))
            R == Len(body)
            s == Len(rcv.o.inner)
            declared == buffer[6] * 4
            block == SubSeq(body, s + 1, R)
        IN /\ s <= R
           /\ rcv.o.inner = SubSeq(body, 1, s)
           /\ rcv.o.has_inner = (s > 0)
           /\ rcv.assigned =>
                /\ ExtensionCapable(buffer[1])
                /\ R > 0
                /\ s < R
                /\ IF 128 <= declared /\ declared < R THEN s = declared
                   ELSE s = 128 /\ R > 128
                /\ validate_extensions(block)
                /\ rcv.o.extensions_ = parse_extensions(block)
           /\ (~rcv.assigned) => (s = R /\ rcv.o.extensions_ = <<>>)
           /\ \A r \in rcv.reads : 0 <= r.lo /\ r.hi <= Len(buffer)

\* extensions were found at the declared offset 132
C9_Witness ==
    /\ pc = "parsed"
    /\ rcv.ok
    /\ rcv.assigned
    /\ buffer[6] = 33
    /\ Len(rcv.o.inner) = 132
    /\ rcv.o.extensions_ # <<>>

\* C6 as claimed: a destination-unreachable packet with more than 128 bytes
\* after the fixed header whose bytes [128, end) are a legal extension block
\* decodes, whatever its length sub-field holds, to those extensions and to a
\* payload of the first 128 bytes.
C6_FallbackForEveryLength ==
    (pc = "parsed" /\ rcv.ok /\ buffer[1] = 3 /\ Len(buffer) - 8 > 128
        /\ validate_extensions(SubSeq(buffer, 8 + 128 + 1, Len(buffer)))) =>
        /\ rcv.assigned
        /\ rcv.o.extensions_ = parse_extensions(SubSeq(buffer, 8 + 128 + 1, Len(buffer)))
        /\ rcv.o.inner = SubSeq(buffer, 8 + 1, 8 + 128)

\* C6 as amended: the same, for every value of the length sub-field except
\* those with 128 < length*4 < R, which the decoder takes as the declared
\* offset of the block.
C6_FallbackUnlessLengthPlausible ==
    (pc = "parsed" /\ rcv.ok /\ buffer[1] = 3 /\ Len(buffer) - 8 > 128
        /\ validate_extensions(SubSeq(buffer, 8 + 128 + 1, Len(buffer)))
        /\ ~(128 < buffer[6] * 4 /\ buffer[6] * 4 < Len(buffer) - 8)) =>
        /\ rcv.assigned
        /\ rcv.o.extensions_ = parse_extensions(SubSeq(buffer, 8 + 128 + 1, Len(buffer)))
        /\ rcv.o.inner = SubSeq(buffer, 8 + 1, 8 + 128)

\* a garbage length of 255 words, and the block at 128 was found
C6_Witness ==
    /\ pc = "parsed"
    /\ rcv.ok
    /\ buffer[1] = 3
    /\ buffer[6] = 255
    /\ Len(buffer) - 8 > 128
    /\ rcv.assigned
    /\ Len(rcv.o.inner) = 128
    /\ rcv.o.extensions_ = <<ExtObj(1)>>

\* C7: matches_response is true exactly when the candidate has 8 bytes or
\* more, the kinds pair as echo, timestamp or address mask request and reply,
\* and candidate bytes 4-5 and 6-7 equal the stored id and sequence; it reads
\* no candidate byte at offset 8 or beyond.
C7_MatchesExactly ==
    pc = "matched" =>
        LET n == Len(buffer)
        IN /\ matched.result <=>
                /\ n >= 8
                /\ <<obj.icmp[1], buffer[1]>> \in {<<8, 0>>, <<13, 14>>, <<17, 18>>}
                /\ buffer[5] = obj.icmp[5] /\ buffer[6] = obj.icmp[6]
                /\ buffer[7] = obj.icmp[7] /\ buffer[8] = obj.icmp[8]
           /\ \A r \in matched.reads : r.hi <= 8 /\ r.hi <= n

\* a timestamp reply with the request's id and sequence matched
C7_Witness ==
    /\ pc = "matched"
    /\ matched.result
    /\ obj.icmp[1] = 13
    /\ buffer[1] = 14
    /\ SubSeq(buffer, 5, 8) = <<18, 52, 0, 1>>

\* the length of the serialized extension block of o
BlockLength(o) == Len(extensions_bytes(o.extensions_))

\* C2: given a buffer of exactly header_size() + len(inner payload) +
\* trailer_size() bytes, every byte the encoder writes is at an offset below
\* that capacity, for every kind, with or without payload and extensions.
C2_WritesWithinCapacity ==
    Encoded =>
        /\ Len(buffer) = header_size(obj) + inner_size(obj) + trailer_size(obj)
        /\ \A w \in writes : 0 <= w.lo /\ w.lo < w.hi /\ w.hi <= Len(buffer)

\* a 130-byte payload with extensions was serialized, and the last write ends
\* at the capacity
C2_Witness ==
    /\ Encoded
    /\ inner_size(obj) = 130
    /\ has_extensions(obj)
    /\ \E w \in writes : w.hi = Len(buffer) /\ w.lo > 8

\* the sum of the bytes of buf[lo..hi], those at even offsets weighing 256
RECURSIVE WeightedSum(_, _, _)
WeightedSum(buf, lo, hi) ==
    IF lo > hi THEN 0
    ELSE IF lo = hi THEN (IF lo % 2 = 1 THEN 256 * buf[lo] ELSE buf[lo])
    ELSE LET mid == (lo + hi) \div 2
         IN WeightedSum(buf, lo, mid) + WeightedSum(buf, mid + 1, hi)

\* the 16-bit one's-complement sum of buf with bytes 2-3 counted as zero
OnesComplementSum(buf) ==
    LET total == WeightedSum(buf, 1, Len(buf)) - 256 * buf[3] - buf[4]
    IN IF total = 0 THEN 0
       ELSE IF total % 65535 = 0 THEN 65535
       ELSE total % 65535

\* C3: after encode, bytes 2-3 hold, big-endian, the complement of the
\* carry-folded 16-bit one's-complement sum of the whole output with bytes
\* 2-3 counted as zero, whatever checksum the message stored before; an echo
\* request with id 0x1234, sequence 1 and no payload encodes to
\* 08 00 E5 CA 12 34 00 01.
C3_ChecksumOverWholeOutput ==
    Encoded =>
        /\ buffer[3] * 256 + buffer[4] = 65535 - OnesComplementSum(buffer)
        /\ (/\ obj.icmp[1] = 8 /\ obj.icmp[2] = 0
            /\ SubSeq(obj.icmp, 5, 8) = <<18, 52, 0, 1>>
            /\ ~obj.has_inner /\ ~has_extensions(obj))
           => buffer = <<8, 0, 229, 202, 18, 52, 0, 1>>

\* the echo request of the example was serialized after checksum(0xBEEF)
C3_Witness ==
    /\ Encoded
    /\ calls = 3
    /\ buffer = <<8, 0, 229, 202, 18, 52, 0, 1>>

\* C4: for a kind that is not extension-capable, with no inner payload (and no
\* extensions), decoding the encoder's output succeeds and yields the kind,
\* code, checksum as encode left it, type_specific slot, the timestamps of a
\* timestamp kind, the mask of an address mask kind, no payload and no
\* extensions.
C4_RoundTrip ==
    (pc = "parsed" /\ buffer # <<>> /\ ~ExtensionCapable(obj.icmp[1])
        /\ ~obj.has_inner /\ ~has_extensions(obj)) =>
        /\ rcv.ok
        /\ rcv.o.icmp = obj.icmp
        /\ obj.icmp[1] \in {13, 14} =>
             /\ get_original_timestamp(rcv.o) = get_original_timestamp(obj)
             /\ get_receive_timestamp(rcv.o) = get_receive_timestamp(obj)
             /\ get_transmit_timestamp(rcv.o) = get_transmit_timestamp(obj)
        /\ obj.icmp[1] \in {17, 18} => get_address_mask(rcv.o) = get_address_mask(obj)
        /\ ~rcv.o.has_inner
        /\ rcv.o.inner = <<>>
        /\ rcv.o.extensions_ = <<>>
        /\ ~rcv.assigned

\* a timestamp reply with three distinct timestamps went round
C4_Witness ==
    /\ pc = "parsed"
    /\ obj.icmp[1] = 14
    /\ rcv.ok
    /\ get_original_timestamp(rcv.o) = <<1, 2, 3, 4>>
    /\ get_receive_timestamp(rcv.o) = <<5, 6, 7, 8>>
    /\ get_transmit_timestamp(rcv.o) = <<9, 10, 11, 12>>

\* C5 as claimed: a destination-unreachable message with an inner payload of
\* L < 128 bytes and no extensions has trailer_size() = 128 - L.
C5_PaddingWithoutExtensions ==
    (obj.icmp[1] = 3 /\ obj.has_inner /\ inner_size(obj) < 128 /\ ~has_extensions(obj)) =>
        trailer_size(obj) = 128 - inner_size(obj)

\* C5 as amended: with no extensions trailer_size() is 0; the 128 - L bytes of
\* padding are counted only with extensions, on top of the block's length.
C5_PaddingOnlyWithExtensions ==
    (obj.icmp[1] = 3 /\ obj.has_inner /\ inner_size(obj) < 128) =>
        trailer_size(obj) = IF has_extensions(obj)
                            THEN BlockLength(obj) + 128 - inner_size(obj)
                            ELSE 0

\* a 40-byte payload with a 12-byte block was serialized into 8 + 128 + 12
C5_Witness ==
    /\ Encoded
    /\ obj.icmp[1] = 3
    /\ inner_size(obj) = 40
    /\ BlockLength(obj) = 12
    /\ trailer_size(obj) = 88 + 12
    /\ Len(buffer) = 148

\* C8: encoding a message with extensions and a payload of L bytes, with
\* A = round_up(L, 4) and P = max(A, 128), sets every byte at [8 + L, 8 + P)
\* to zero whatever the buffer held, leaves the payload at [8, 8 + L) and
\* puts the extension block at 8 + P.
C8_PaddingZeroed ==
    (Encoded /\ ExtensionCapable(obj.icmp[1]) /\ has_extensions(obj) /\ obj.has_inner) =>
        LET L == inner_size(obj)
            P == IF RoundUp4(L) > 128 THEN RoundUp4(L) ELSE 128
        IN /\ \A i \in (8 + L)..(8 + P - 1) : buffer[i + 1] = 0
           /\ SubSeq(buffer, 8 + 1, 8 + L) = obj.inner
           /\ SubSeq(buffer, 8 + P + 1, Len(buffer)) = extensions_bytes(obj.extensions_)

\* C10: for an extension-capable message with a non-empty extension block,
\* decoding the encoder's output finds the block where the encoder put it
\* (the length sub-field, when written, times 4 is that offset), yields an
\* equal block, and a payload that is the original followed by zeros only.
C10_ExtensionOffsetAgrees ==
    (pc = "parsed" /\ buffer # <<>> /\ ExtensionCapable(obj.icmp[1]) /\ has_extensions(obj)) =>
        LET L == inner_size(obj)
            P == IF ~obj.has_inner THEN 0
                 ELSE IF RoundUp4(L) > 128 THEN RoundUp4(L) ELSE 128
        IN /\ rcv.ok
           /\ rcv.assigned
           /\ Len(rcv.o.inner) = P
           /\ rcv.o.extensions_ = obj.extensions_
           /\ rcv.o.inner = obj.inner \o Zeros(P - L)
           /\ obj.icmp[6] # 0 => obj.icmp[6] * 4 = P

====
